---- MODULE Spec2Model ----
(***************************************************************************)
(* A model of notebooks/data_tools.py (lcmap-science): helper functions    *)
(* over TAP-exported time series.  Every function of the file is a         *)
(* stateless transformation, so a behaviour of the model is one call: the   *)
(* state is the call (function name and arguments) and, once the function  *)
(* has run, what it returned or raised.                                    *)
(*                                                                         *)
(* Representation                                                          *)
(*   - a DataFrame is a sequence of rows; a row is a record with the       *)
(*     field "index" (the row label) and the columns "dates", "qa", "red"; *)
(*   - a value of the "dates" column (datetime64 / Timestamp) is its       *)
(*     proleptic Gregorian ordinal (day 1 = 0001-01-01); dt.datetime(y,m,d)*)
(*     and .timetuple().tm_year are modelled by the calendar arithmetic of *)
(*     CPython's datetime module (ymd2ord, ord2ymd);                       *)
(*   - a numpy 1-d array is a sequence, a 2-d array a function             *)
(*     [0..99 -> [0..99 -> Int]];                                          *)
(*   - a call returns [status |-> "ok", value |-> v] or raises, which is   *)
(*     [status |-> <name of the exception>];                               *)
(*   - Python positions are 0-based, sequence positions here are 1-based.  *)
(*                                                                         *)
(* Library behaviour is that of the numpy/pandas the file was written for  *)
(* (np.int is the builtin int).  Where the pandas generations differ in    *)
(* what a call of this file does (DataFrame.sort_values with a positional  *)
(* second argument) the generation is an input of the call.                *)
(***************************************************************************)
EXTENDS Integers, Sequences, FiniteSets, TLC

VARIABLES call, result

vars == <<call, result>>

\* ------------------------------------------------------------------------
\* Exceptions and results

Ok(v) == [status |-> "ok", value |-> v]

Raise(e) == [status |-> e]

IsOk(r) == r.status = "ok"

\* a call that was made and has not returned yet
Pending == [status |-> "pending"]

Returned == result # Pending

\* Python values that a statistic can be: None, numpy's nan, an integer, and
\* a float kept exact as a fraction or as the square root of one
None == [py |-> "None"]

NaN == [py |-> "nan"]

PyInt(x) == [py |-> "int", v |-> x]

\* ------------------------------------------------------------------------
\* Sequence helpers

RECURSIVE SeqsUpTo(_, _)
\* all sequences over S of length 0..n
SeqsUpTo(S, n) ==
    IF n = 0 THEN {<<>>}
    ELSE LET shorter == SeqsUpTo(S, n - 1)
         IN shorter \cup {Append(s, x) : s \in {t \in shorter : Len(t) = n - 1}, x \in S}

Reverse(s) == [i \in 1..Len(s) |-> s[Len(s) + 1 - i]]

\* ------------------------------------------------------------------------
\* assemble

\* shape=(100, 100)
GridSize == 100

\* the 30-unit grid pitch
Pitch == 30

\* int(a / b) for b > 0: true division, then truncation toward zero
TruncDiv(a, b) == IF a >= 0 THEN a \div b ELSE -((-a) \div b)

\* Python/numpy indexing: a negative index counts from the end
NormIndex(i, n) == IF i < 0 THEN i + n ELSE i

\* an index outside -n..n-1 raises IndexError
IndexOk(i, n) == NormIndex(i, n) >= 0 /\ NormIndex(i, n) < n

\* np.zeros(shape=(100, 100), dtype=np.int)
Zeros == [r \in 0..(GridSize - 1) |-> [c \in 0..(GridSize - 1) |-> 0]]

\* t[0][0], t[0][1]: the chip origin; t[0][2], t[0][3]: the pixel coordinate
ChipX(t) == t[1][1]

ChipY(t) == t[1][2]

CoordX(t) == t[1][3]

CoordY(t) == t[1][4]

\* col = int((coord_x - chip_coord_x) / 30)
GridCol(t) == TruncDiv(CoordX(t) - ChipX(t), Pitch)

\* a row computed from the chip's bottom edge
GridRowMirrored(t) == (GridSize - 1) - TruncDiv(ChipY(t) - CoordY(t), Pitch)

\* row = int((chip_coord_y - coord_y) / 30)
GridRow(t) == TruncDiv(ChipY(t) - CoordY(t), Pitch)

\* out[b][row][col] = t[1][b][ind], for every b in bands; the right-hand side
\* is evaluated first, then the two subscripts of out[b].  Nothing is indexed
\* outside the loop over bands: with no band, no record can raise.
RECURSIVE assembleLoop(_, _, _, _, _)
assembleLoop(out, timeseries, k, ind, bands) ==
    IF k > Len(timeseries) THEN Ok(out)
    ELSE LET t == timeseries[k]
             row == GridRow(t)
             col == GridCol(t)
         IN IF \E b \in bands : \/ ~IndexOk(ind, Len(t[2][b]))
                                  \/ ~IndexOk(row, GridSize)
                                  \/ ~IndexOk(col, GridSize)
            THEN Raise("IndexError")
            ELSE assembleLoop(
                     [b \in bands |->
                         [out[b] EXCEPT ![NormIndex(row, GridSize)][NormIndex(col, GridSize)] =
                             t[2][b][NormIndex(ind, Len(t[2][b])) + 1]]],
                     timeseries, k + 1, ind, bands)

\* the records visited in the opposite order
assembleReversed(timeseries, ind, bands) ==
    assembleLoop([b \in bands |-> Zeros], Reverse(timeseries), 1, ind, bands)

assemble(timeseries, ind, bands) ==
    assembleLoop([b \in bands |-> Zeros], timeseries, 1, ind, bands)

\* ------------------------------------------------------------------------
\* Inputs of assemble

MaxRecords == 2

\* per-band time series of a record, two dates each
SeriesA == [B1 |-> <<42, 7>>, B2 |-> <<5, 6>>]

SeriesB == [B1 |-> <<8, 42>>, B2 |-> <<9, 5>>]

\* ((chip_x, chip_y, pixel_x, pixel_y), {band: [value, ...]})
Record(cx, cy, dx, dy, series) == <<<<cx, cy, cx + dx, cy - dy>>, series>>

\* records inside the chip's 100x100 grid at the 30-unit pitch, two of them on
\* the same cell; then a pixel one cell left of the chip, one cell above it,
\* one cell right of its last column, and one off the pitch
Records ==
    { Record(0, 0, 0, 0, SeriesA),
      Record(0, 0, 0, 0, SeriesB),
      Record(3000, 6000, 2970, 2970, SeriesB),
      Record(3000, 6000, 30, 60, SeriesA),
      Record(0, 0, -30, 0, SeriesA),
      Record(0, 0, 0, -30, SeriesB),
      Record(0, 0, 3000, 0, SeriesA),
      Record(0, 0, 45, 0, SeriesB) }

\* no band, one band, two bands
BandSets == {{}, {"B1"}, {"B1", "B2"}}

IndSet == {0, 1, 2}

\* the calls of assemble(timeseries, ind, bands) that are tried
AssembleCalls ==
    { [op |-> "assemble", timeseries |-> ts, ind |-> ind, bands |-> bands] :
        ts \in SeqsUpTo(Records, MaxRecords), ind \in IndSet, bands \in BandSets }

Assemble ==
    /\ call.op = "assemble"
    /\ result = Pending
    /\ result' = assemble(call.timeseries, call.ind, call.bands)
    /\ UNCHANGED call

InitAssemble ==
    /\ call \in AssembleCalls
    /\ result = Pending

NextAssemble == Assemble

SpecAssemble == InitAssemble /\ [][NextAssemble]_vars

\* ------------------------------------------------------------------------
\* Calendar arithmetic of dt.datetime (proleptic Gregorian ordinals)

DaysInMonthTable == <<31, 28, 31, 30, 31, 30, 31, 31, 30, 31, 30, 31>>

DaysBeforeMonthTable == <<0, 31, 59, 90, 120, 151, 181, 212, 243, 273, 304, 334>>

IsLeap(year) == year % 4 = 0 /\ (year % 100 # 0 \/ year % 400 = 0)

DaysBeforeYear(year) ==
    LET y == year - 1 IN y * 365 + (y \div 4) - (y \div 100) + (y \div 400)

DaysInMonth(year, month) ==
    IF month = 2 /\ IsLeap(year) THEN 29 ELSE DaysInMonthTable[month]

DaysBeforeMonth(year, month) ==
    DaysBeforeMonthTable[month] + (IF month > 2 /\ IsLeap(year) THEN 1 ELSE 0)

\* dt.datetime(year, month, day) accepts only a date of the calendar
ValidYmd(year, month, day) ==
    /\ year >= 1 /\ year <= 9999
    /\ month >= 1 /\ month <= 12
    /\ day >= 1 /\ day <= DaysInMonth(year, month)

\* dt.datetime(year, month, day).toordinal()
Ymd2Ord(year, month, day) ==
    DaysBeforeYear(year) + DaysBeforeMonth(year, month) + day

\* the date of an ordinal, <<year, month, day>>
Ord2Ymd(ordinal) ==
    LET n0 == ordinal - 1
        n400 == n0 \div 146097
        r400 == n0 % 146097
        n100 == r400 \div 36524
        r100 == r400 % 36524
        n4 == r100 \div 1461
        r4 == r100 % 1461
        n1 == r4 \div 365
        n == r4 % 365
        year == n400 * 400 + 1 + n100 * 100 + n4 * 4 + n1
    IN IF n1 = 4 \/ n100 = 4 THEN <<year - 1, 12, 31>>
       ELSE LET leap == n1 = 3 /\ (n4 # 24 \/ n100 = 3)
                guess == (n + 50) \div 32
                before == DaysBeforeMonthTable[guess]
                            + (IF guess > 2 /\ leap THEN 1 ELSE 0)
                month == IF before > n THEN guess - 1 ELSE guess
                preceding ==
                    IF before > n
                    THEN before - (DaysInMonthTable[month]
                                     + (IF month = 2 /\ leap THEN 1 ELSE 0))
                    ELSE before
            IN <<year, month, n - preceding + 1>>

\* x.timetuple().tm_year
YearOf(ordinal) == Ord2Ymd(ordinal)[1]

\* ------------------------------------------------------------------------
\* DataFrame operations used by the file

Columns == {"dates", "qa", "red"}

\* df[<boolean series>] is SelectSeq: the rows where the series is true, with
\* their labels.

\* the cells of a row, without its label
Cells(row) == [c \in Columns |-> row[c]]

\* .reset_index(drop=True): the labels become 0..n-1
reset_index(df) == [i \in 1..Len(df) |-> [df[i] EXCEPT !.index = i - 1]]

\* ------------------------------------------------------------------------
\* dates, mask, values

\* the upper bound taken exclusive
datesHalfOpen(df, params, field) ==
    reset_index(SelectSeq(df, LAMBDA row : row[field] >= params[1] /\ row[field] < params[2]))

\* df[(df[field] >= _min) & (df[field] <= _max)].reset_index(drop=True)
dates(df, params, field) ==
    reset_index(SelectSeq(df, LAMBDA row : row[field] >= params[1] /\ row[field] <= params[2]))

mask_values == {1, 96, 112, 160, 176, 224, 352, 368, 416, 432, 480, 864, 880, 928, 944, 992}

\* the filter always done with the default codes
maskDefaultOnly(df, vals, mask_field) ==
    reset_index(SelectSeq(df, LAMBDA row : row[mask_field] \notin mask_values))

\* df[~df[mask_field].isin(np.array(vals))].reset_index(drop=True)
mask(df, vals, mask_field) ==
    reset_index(SelectSeq(df, LAMBDA row : row[mask_field] \notin vals))

\* df[field].values
values(df, field) == [i \in 1..Len(df) |-> df[i][field]]

\* ------------------------------------------------------------------------
\* sort_on, temporal

\* the row inserted after the rows of s whose key is not greater (ascending)
\* or not smaller (descending): a stable insertion
RECURSIVE InsertRow(_, _, _, _)
InsertRow(s, row, by, ascending) ==
    IF s = <<>> THEN <<row>>
    ELSE LET last == s[Len(s)]
             stays == IF ascending THEN last[by] <= row[by] ELSE last[by] >= row[by]
         IN IF stays THEN Append(s, row)
            ELSE Append(InsertRow(SubSeq(s, 1, Len(s) - 1), row, by, ascending), last)

RECURSIVE StableSort(_, _, _)
StableSort(df, by, ascending) ==
    IF df = <<>> THEN <<>>
    ELSE InsertRow(StableSort(SubSeq(df, 1, Len(df) - 1), by, ascending),
                   df[Len(df)], by, ascending)

\* what DataFrame.sort_values(by, axis, ascending=True, kind='quicksort') does
\* when axis is given a bool, per pandas generation:
\*   "legacy" (before 1.1): a bool is no axis name or number: ValueError;
\*   "v1" (1.1 to 1.5): True and False are the dictionary keys 1 and 0; with
\*        axis 1, by must be a row label, which no column name is: KeyError;
\*        with axis 0 the rows are sorted (frames this small are sorted by
\*        insertion, which keeps ties in order);
\*   "v2" (2.0 on): axis is keyword-only: TypeError.
sort_values(df, by, axis, ascending, api) ==
    CASE api = "legacy" -> Raise("ValueError")
      [] api = "v2" -> Raise("TypeError")
      [] OTHER -> IF axis THEN Raise("KeyError")
                  ELSE Ok(StableSort(df, by, ascending))

\* frame.reset_index(drop=True) of a call that may have raised
ThenResetIndex(r) == IF IsOk(r) THEN Ok(reset_index(r.value)) ELSE r

\* df.sort_values(field, ascending).reset_index(drop=True): the second
\* positional parameter of sort_values is axis, and ascending keeps its
\* default, True
sort_on(df, field, ascending, api) ==
    ThenResetIndex(sort_values(df, field, ascending, TRUE, api))

temporal(df, ascending, field, api) ==
    ThenResetIndex(sort_values(df, field, ascending, TRUE, api))

\* ------------------------------------------------------------------------
\* Inputs: tables

MaxRows == 2

\* 2004-06-01 (a Tuesday), 2004-06-06 (a Sunday), 2005-06-05 (a Sunday)
TableDates == {Ymd2Ord(2004, 6, 1), Ymd2Ord(2004, 6, 6), Ymd2Ord(2005, 6, 5)}

\* 96 is one of mask_values, 0 is not
QaCodes == {0, 96}

RedValues == {10, 20}

RowCells == [dates : TableDates, qa : QaCodes, red : RedValues]

\* a table as loaded: the rows labelled 0..n-1
Labelled(cells) ==
    [i \in 1..Len(cells) |->
        [index |-> i - 1, dates |-> cells[i].dates, qa |-> cells[i].qa, red |-> cells[i].red]]

Tables == {Labelled(cells) : cells \in SeqsUpTo(RowCells, MaxRows)}

PandasApis == {"legacy", "v1", "v2"}

DatesCalls ==
    { [op |-> "dates", df |-> df, params |-> <<lo, hi>>, field |-> "dates"] :
        df \in Tables, lo \in TableDates, hi \in TableDates }
    \cup
    { [op |-> "dates", df |-> df, params |-> <<lo, hi>>, field |-> "red"] :
        df \in Tables, lo \in RedValues, hi \in RedValues }

MaskCalls ==
    { [op |-> "mask", df |-> df, vals |-> vals, mask_field |-> "qa"] :
        df \in Tables, vals \in {mask_values, {0}, {}} }
    \cup
    { [op |-> "mask", df |-> df, vals |-> {10}, mask_field |-> "red"] : df \in Tables }

SortOnCalls ==
    { [op |-> "sort_on", df |-> df, field |-> f, ascending |-> a, api |-> api] :
        df \in Tables, f \in Columns, a \in BOOLEAN, api \in PandasApis }

TemporalCalls ==
    { [op |-> "temporal", df |-> df, field |-> "dates", ascending |-> a, api |-> api] :
        df \in Tables, a \in BOOLEAN, api \in PandasApis }

Dates ==
    /\ call.op = "dates"
    /\ result = Pending
    /\ result' = Ok(dates(call.df, call.params, call.field))
    /\ UNCHANGED call

Mask ==
    /\ call.op = "mask"
    /\ result = Pending
    /\ result' = Ok(mask(call.df, call.vals, call.mask_field))
    /\ UNCHANGED call

SortOn ==
    /\ call.op = "sort_on"
    /\ result = Pending
    /\ result' = sort_on(call.df, call.field, call.ascending, call.api)
    /\ UNCHANGED call

Temporal ==
    /\ call.op = "temporal"
    /\ result = Pending
    /\ result' = temporal(call.df, call.ascending, call.field, call.api)
    /\ UNCHANGED call

InitTable ==
    /\ call \in DatesCalls \cup MaskCalls \cup SortOnCalls \cup TemporalCalls
    /\ result = Pending

NextTable == Dates \/ Mask \/ SortOn \/ Temporal

SpecTable == InitTable /\ [][NextTable]_vars

\* ------------------------------------------------------------------------
\* nearest_date

Abs(x) == IF x < 0 THEN -x ELSE x

\* ndarray.argmin(): the first position of the minimum; an empty array raises
np_argmin(arr) ==
    IF Len(arr) = 0 THEN Raise("ValueError")
    ELSE Ok((CHOOSE i \in 1..Len(arr) :
                /\ \A j \in 1..Len(arr) : arr[i] <= arr[j]
                /\ \A j \in 1..(i - 1) : arr[j] > arr[i]) - 1)

\* the distances taken signed: (array - date).argmin()
nearest_date_signed(array, date) ==
    IF ~ValidYmd(date[1], date[2], date[3]) THEN Raise("ValueError")
    ELSE LET target == Ymd2Ord(date[1], date[2], date[3])
         IN np_argmin([i \in 1..Len(array) |-> array[i] - target])

\* date = dt.datetime(*date).toordinal(); (np.abs(array - date)).argmin()
nearest_date(array, date) ==
    IF ~ValidYmd(date[1], date[2], date[3]) THEN Raise("ValueError")
    ELSE LET target == Ymd2Ord(date[1], date[2], date[3])
         IN np_argmin([i \in 1..Len(array) |-> Abs(array[i] - target)])

\* ------------------------------------------------------------------------
\* stats

RECURSIVE GCD(_, _)
GCD(a, b) == IF b = 0 THEN a ELSE GCD(b, a % b)

\* the float n / d, d > 0, as a fraction in lowest terms
Frac(n, d) ==
    LET g == GCD(Abs(n), d) IN [py |-> "float", num |-> n \div g, den |-> d \div g]

\* the float sqrt(n / d)
SqrtFrac(n, d) == [py |-> "float", sqrt |-> Frac(n, d)]

RECURSIVE SumSeq(_)
SumSeq(arr) == IF arr = <<>> THEN 0 ELSE arr[1] + SumSeq(Tail(arr))

\* arr.mean(): nan for an empty array (numpy warns, it does not raise)
np_mean(arr) ==
    IF Len(arr) = 0 THEN Ok(NaN) ELSE Ok(Frac(SumSeq(arr), Len(arr)))

\* a maximum that gives nan for an empty array, as the mean does
np_max_nan(arr) ==
    IF Len(arr) = 0 THEN Ok(NaN)
    ELSE Ok(PyInt(CHOOSE x \in {arr[i] : i \in 1..Len(arr)} :
                    \A i \in 1..Len(arr) : arr[i] <= x))

\* arr.max(): ValueError for an empty array (a reduction with no identity)
np_max(arr) ==
    IF Len(arr) = 0 THEN Raise("ValueError")
    ELSE Ok(PyInt(CHOOSE x \in {arr[i] : i \in 1..Len(arr)} :
                    \A i \in 1..Len(arr) : arr[i] <= x))

\* arr.std(): the population standard deviation, kept exact as the square
\* root of a fraction; nan for an empty array
np_std(arr) ==
    IF Len(arr) = 0 THEN Ok(NaN)
    ELSE LET n == Len(arr)
             sum == SumSeq(arr)
             squares == SumSeq([i \in 1..n |-> arr[i] * arr[i]])
         IN Ok(SqrtFrac(n * squares - sum * sum, n * n))

NoneRecord == [min |-> None, max |-> None, mean |-> None, std |-> None]

\* 'min' is arr.mean(), as in the source; a ValueError of any of the four
\* computations gives the record of None values
stats(arr) ==
    LET computed == [min |-> np_mean(arr), max |-> np_max(arr),
                     mean |-> np_mean(arr), std |-> np_std(arr)]
    IN IF \E k \in DOMAIN computed : computed[k].status = "ValueError"
       THEN NoneRecord
       ELSE [k \in DOMAIN computed |-> computed[k].value]

\* ------------------------------------------------------------------------
\* Inputs: arrays

MaxArr == 3

\* ordinal day counts
OrdinalValues == {1, 5, 7, 10}

\* (year, month, day): ordinals 6, 3 and 32, and a day that does not exist
TargetDates == {<<1, 1, 6>>, <<1, 1, 3>>, <<1, 2, 1>>, <<1, 2, 30>>}

SampleValues == {2, 4, 6, 7}

NearestDateCalls ==
    { [op |-> "nearest_date", array |-> a, date |-> d] :
        a \in SeqsUpTo(OrdinalValues, MaxArr), d \in TargetDates }

StatsCalls == { [op |-> "stats", arr |-> a] : a \in SeqsUpTo(SampleValues, MaxArr) }

NearestDate ==
    /\ call.op = "nearest_date"
    /\ result = Pending
    /\ result' = nearest_date(call.array, call.date)
    /\ UNCHANGED call

Stats ==
    /\ call.op = "stats"
    /\ result = Pending
    /\ result' = Ok(stats(call.arr))
    /\ UNCHANGED call

InitArray ==
    /\ call \in NearestDateCalls \cup StatsCalls
    /\ result = Pending

NextArray == NearestDate \/ Stats

SpecArray == InitArray /\ [][NextArray]_vars

\* ------------------------------------------------------------------------
\* years, date_range, seasons, get_seasonal_info

RECURSIVE Unique(_)
\* Series.unique(): the distinct values in order of first appearance
Unique(s) ==
    IF s = <<>> THEN <<>>
    ELSE LET front == Unique(SubSeq(s, 1, Len(s) - 1))
             last == s[Len(s)]
         IN IF \E i \in 1..Len(front) : front[i] = last THEN front
            ELSE Append(front, last)

\* df['dates'].apply(lambda x: (x.timetuple()).tm_year).unique()
years(df) == Unique([i \in 1..Len(df) |-> YearOf(df[i].dates)])

\* whether pandas' date_range generates the day for the frequency: 'D' every
\* day, 'W' (W-SUN) the Sundays, 'MS' the first days of months
OnOffset(ordinal, freq) ==
    CASE freq = "D" -> TRUE
      [] freq = "W" -> ordinal % 7 = 0
      [] freq = "MS" -> Ord2Ymd(ordinal)[3] = 1

\* pd.date_range(start=, end=, periods=, freq=): of the four, exactly three
\* may be given, else ValueError; with start, end and freq, the days of
\* [start, end] on the frequency, in order
date_range(params) ==
    IF params.periods # None THEN Raise("ValueError")
    ELSE Ok(SelectSeq([i \in 1..(params.end - params.start + 1) |-> params.start + i - 1],
                      LAMBDA n : OnOffset(n, params.freq)))

\* params[k], or the parameter's default when the caller's dict has no k
Arg(params, k, default) == IF k \in DOMAIN params THEN params[k] ELSE default

\* the season of year y: date_range from dt.datetime(y, start_mon, start_day)
\* to dt.datetime(y, end_mon, end_day)
SeasonOf(y, start_mon, start_day, end_mon, end_day, periods, freq) ==
    IF ~ValidYmd(y, start_mon, start_day) \/ ~ValidYmd(y, end_mon, end_day)
    THEN Raise("ValueError")
    ELSE date_range([start |-> Ymd2Ord(y, start_mon, start_day),
                     end |-> Ymd2Ord(y, end_mon, end_day),
                     periods |-> periods, freq |-> freq])

\* the years of a sequence of years
YearSet(ys) == {ys[i] : i \in 1..Len(ys)}

\* an OrderedDict: the keys in insertion order, and the value of each key
OrderedDict(keys, valueOf) ==
    [keys |-> keys, at |-> [k \in {keys[i] : i \in 1..Len(keys)} |-> valueOf[k]]]

\* OrderedDict([(y, date_range({...})) for y in years(df)])
seasons(df, start_mon, start_day, end_mon, end_day, periods, freq) ==
    LET ys == years(df)
        season(y) == SeasonOf(y, start_mon, start_day, end_mon, end_day, periods, freq)
    IN IF \E i \in 1..Len(ys) : ~IsOk(season(ys[i])) THEN Raise("ValueError")
       ELSE Ok(OrderedDict(ys, [y \in YearSet(ys) |-> season(y).value]))

\* dates(df, (__seasons[y][0], __seasons[y][-1])): the slice between the
\* first and the last generated date of the season
SeasonSlice(df, season) == dates(df, <<season[1], season[Len(season)]>>, "dates")

\* stats(values(mask(dates(df, ...), **params), **params))
SeasonStats(df, season, params) ==
    stats(values(mask(SeasonSlice(df, season),
                      Arg(params, "vals", mask_values),
                      Arg(params, "mask_field", "qa")),
                 params.field))

\* __seasons = seasons(df, **params), then one entry per year of years(df);
\* __seasons[y][0] of a season without dates raises IndexError
get_seasonal_info(df, params) ==
    LET ss == seasons(df, params.start_mon, params.start_day,
                      params.end_mon, params.end_day,
                      Arg(params, "periods", None), Arg(params, "freq", "D"))
        ys == years(df)
    IN IF ~IsOk(ss) THEN ss
       ELSE IF \E i \in 1..Len(ys) : Len(ss.value.at[ys[i]]) = 0 THEN Raise("IndexError")
       ELSE Ok(OrderedDict(ys, [y \in YearSet(ys) |->
                                     SeasonStats(df, ss.value.at[y], params)]))

\* ------------------------------------------------------------------------
\* Inputs: seasons

\* June 1 to June 10; June 1 to June 4 (no Sunday in 2004 or 2005); June 2 to
\* July 4; February 1 to February 29 (no such day in 2005); June 10 to June 1
Windows ==
    { [start_mon |-> 6, start_day |-> 1, end_mon |-> 6, end_day |-> 10],
      [start_mon |-> 6, start_day |-> 1, end_mon |-> 6, end_day |-> 4],
      [start_mon |-> 6, start_day |-> 2, end_mon |-> 7, end_day |-> 4],
      [start_mon |-> 2, start_day |-> 1, end_mon |-> 2, end_day |-> 29],
      [start_mon |-> 6, start_day |-> 10, end_mon |-> 6, end_day |-> 1] }

\* the keyword arguments given besides the window and the field
Options ==
    { [field |-> "red"],
      [field |-> "red", freq |-> "D"],
      [field |-> "red", freq |-> "W"],
      [field |-> "red", freq |-> "MS"],
      [field |-> "red", periods |-> PyInt(2)],
      [field |-> "red", vals |-> {0}, mask_field |-> "qa"] }

\* a dict with the keys of both
Merge(f, g) ==
    [k \in DOMAIN f \cup DOMAIN g |-> IF k \in DOMAIN f THEN f[k] ELSE g[k]]

SeasonalCalls ==
    { [op |-> "get_seasonal_info", df |-> df, params |-> Merge(w, o)] :
        df \in Tables, w \in Windows, o \in Options }

GetSeasonalInfo ==
    /\ call.op = "get_seasonal_info"
    /\ result = Pending
    /\ result' = get_seasonal_info(call.df, call.params)
    /\ UNCHANGED call

InitSeasonal ==
    /\ call \in SeasonalCalls
    /\ result = Pending

NextSeasonal == GetSeasonalInfo

SpecSeasonal == InitSeasonal /\ [][NextSeasonal]_vars

\* ------------------------------------------------------------------------
\* Any one call of the file

Init == InitAssemble \/ InitTable \/ InitArray \/ InitSeasonal

Next == NextAssemble \/ NextTable \/ NextArray \/ NextSeasonal

Spec == Init /\ [][Next]_vars

\* ------------------------------------------------------------------------
\* Claims about assemble

\* the data-model invariant of a record: the pixel lies in the chip's 100x100
\* grid, at offsets 0..2970 in multiples of 30
ValidRecord(t) ==
    /\ (CoordX(t) - ChipX(t)) \in {Pitch * c : c \in 0..(GridSize - 1)}
    /\ (ChipY(t) - CoordY(t)) \in {Pitch * r : r \in 0..(GridSize - 1)}

\* ind is a valid index of every record's series
ValidInd(ts, ind, bands) ==
    \A k \in 1..Len(ts) : \A b \in bands : ind >= 0 /\ ind < Len(ts[k][2][b])

\* the records whose pixel is exactly at cell (r, c) of its chip
Hits(ts, r, c) ==
    {k \in 1..Len(ts) : /\ ChipY(ts[k]) - CoordY(ts[k]) = Pitch * r
                        /\ CoordX(ts[k]) - ChipX(ts[k]) = Pitch * c}

MaxOf(S) == CHOOSE x \in S : \A y \in S : y <= x

\* C1: for records that satisfy the data-model invariant and a valid ind,
\* assemble returns one 100x100 grid per band; a cell holds t[1][b][ind] of the
\* last record in input order that maps to it, and 0 when no record does.
C1_LastWriteWins ==
    (/\ call.op = "assemble"
     /\ Returned
     /\ \A k \in 1..Len(call.timeseries) : ValidRecord(call.timeseries[k])
     /\ ValidInd(call.timeseries, call.ind, call.bands))
    => /\ IsOk(result)
       /\ DOMAIN result.value = call.bands
       /\ \A b \in call.bands :
            /\ DOMAIN result.value[b] = 0..(GridSize - 1)
            /\ \A r \in 0..(GridSize - 1) :
                 /\ DOMAIN result.value[b][r] = 0..(GridSize - 1)
                 /\ \A c \in 0..(GridSize - 1) :
                      LET hits == Hits(call.timeseries, r, c)
                      IN result.value[b][r][c] =
                            IF hits = {} THEN 0
                            ELSE call.timeseries[MaxOf(hits)][2][b][call.ind + 1]

\* two records on cell (0, 0); the cell holds the second one's value
C1_Witness ==
    /\ call.op = "assemble"
    /\ Returned
    /\ call.timeseries = <<Record(0, 0, 0, 0, SeriesA), Record(0, 0, 0, 0, SeriesB)>>
    /\ call.ind = 0
    /\ call.bands = {"B1", "B2"}
    /\ IsOk(result)
    /\ result.value["B1"][0][0] = 8
    /\ result.value["B2"][0][0] = 9

\* the call of the example: one record, chip origin (0,0), pixel (0,0), bands
\* {"B1"}, ind 0, value 42
C2_Call ==
    [op |-> "assemble", timeseries |-> <<Record(0, 0, 0, 0, SeriesA)>>,
     ind |-> 0, bands |-> {"B1"}]

\* the grid for B1 holds 42 at [r0][c0] and 0 everywhere else
OnlyCell(r0, c0) ==
    /\ IsOk(result)
    /\ \A r \in 0..(GridSize - 1) : \A c \in 0..(GridSize - 1) :
          result.value["B1"][r][c] = IF r = r0 /\ c = c0 THEN 42 ELSE 0

\* C2 as stated: the example call gives grid[99][0] == 42 and 0 elsewhere.
C2_AsStated == (call = C2_Call /\ Returned) => OnlyCell(99, 0)

\* C2 amended: the example call gives grid[0][0] == 42 and 0 elsewhere.
C2_Amended == (call = C2_Call /\ Returned) => OnlyCell(0, 0)

C2_Witness == call = C2_Call /\ Returned /\ IsOk(result)

\* C9 as stated: when some record's computed row or column is outside 0..99
\* the call raises and returns no grid; when every record satisfies the
\* data-model invariant every write lands at an index in 0..99.  Stated here
\* of the calls that ask for at least one band.
C9_OutOfGridFails ==
    (/\ call.op = "assemble"
     /\ Returned
     /\ call.bands # {}
     /\ ValidInd(call.timeseries, call.ind, call.bands))
    => /\ (\E k \in 1..Len(call.timeseries) :
               \/ GridRow(call.timeseries[k]) \notin 0..(GridSize - 1)
               \/ GridCol(call.timeseries[k]) \notin 0..(GridSize - 1))
          => ~IsOk(result)
       /\ (\A k \in 1..Len(call.timeseries) : ValidRecord(call.timeseries[k]))
          => /\ IsOk(result)
             /\ \A k \in 1..Len(call.timeseries) :
                  /\ GridRow(call.timeseries[k]) \in 0..(GridSize - 1)
                  /\ GridCol(call.timeseries[k]) \in 0..(GridSize - 1)

\* ------------------------------------------------------------------------
\* Claims about dates, mask, sort_on and temporal

\* the j-th smallest element of a set of positions
NthOf(S, j) == CHOOSE x \in S : Cardinality({y \in S : y < x}) = j - 1

\* out holds exactly the rows of df at the positions of keep, in their order
ExactlyRowsAt(out, df, keep) ==
    /\ Len(out) = Cardinality(keep)
    /\ \A j \in 1..Len(out) : Cells(out[j]) = Cells(df[NthOf(keep, j)])

\* C3: dates(table, (min, max), field) returns exactly the rows whose field
\* value v has min <= v <= max, both bounds inclusive, in their original
\* relative order; every returned row is in range and the row count does not
\* exceed the input's.
C3_DatesInclusiveSlice ==
    (call.op = "dates" /\ Returned)
    => /\ IsOk(result)
       /\ ExactlyRowsAt(result.value, call.df,
              {i \in 1..Len(call.df) : /\ call.params[1] <= call.df[i][call.field]
                                       /\ call.df[i][call.field] <= call.params[2]})
       /\ \A j \in 1..Len(result.value) :
             /\ call.params[1] <= result.value[j][call.field]
             /\ result.value[j][call.field] <= call.params[2]
       /\ Len(result.value) <= Len(call.df)

\* a row dated exactly max is kept and a later one is dropped
C3_Witness ==
    /\ call.op = "dates"
    /\ Returned
    /\ call.field = "dates"
    /\ call.params = <<Ymd2Ord(2004, 6, 1), Ymd2Ord(2004, 6, 6)>>
    /\ Len(call.df) = 2
    /\ call.df[1].dates = Ymd2Ord(2005, 6, 5)
    /\ call.df[2].dates = Ymd2Ord(2004, 6, 6)
    /\ Len(result.value) = 1
    /\ result.value[1].dates = Ymd2Ord(2004, 6, 6)

\* C4: mask(table, vals, mask_field) returns exactly the rows whose
\* mask_field value is not a member of vals, in their original relative
\* order: no retained row carries a disallowed value and no allowed row is
\* dropped.
C4_MaskDropsExactlyDisallowed ==
    (call.op = "mask" /\ Returned)
    => /\ IsOk(result)
       /\ ExactlyRowsAt(result.value, call.df,
              {i \in 1..Len(call.df) : call.df[i][call.mask_field] \notin call.vals})
       /\ \A j \in 1..Len(result.value) :
             result.value[j][call.mask_field] \notin call.vals

\* with vals = {0}, a row of qa 0 is dropped and a row of qa 96 is retained
C4_Witness ==
    /\ call.op = "mask"
    /\ Returned
    /\ call.vals = {0}
    /\ call.mask_field = "qa"
    /\ Len(call.df) = 2
    /\ call.df[1].qa = 0
    /\ call.df[2].qa = 96
    /\ Len(result.value) = 1
    /\ result.value[1].qa = 96

\* out is a permutation of df's rows
IsPermutation(out, df) ==
    /\ Len(out) = Len(df)
    /\ \A i \in 1..Len(df) :
          Cardinality({j \in 1..Len(out) : Cells(out[j]) = Cells(df[i])})
              = Cardinality({j \in 1..Len(df) : Cells(df[j]) = Cells(df[i])})

\* out is ordered by field in the direction asked
OrderedBy(out, field, ascending) ==
    \A i \in 1..Len(out) : \A j \in 1..Len(out) :
        i < j => IF ascending THEN out[i][field] <= out[j][field]
                              ELSE out[i][field] >= out[j][field]

\* rows of equal field value keep the order they had in df
TiesKeepOrder(out, df, field) ==
    \A v \in {df[i][field] : i \in 1..Len(df)} :
        SelectSeq([i \in 1..Len(out) |-> Cells(out[i])], LAMBDA r : r[field] = v)
            = SelectSeq([i \in 1..Len(df) |-> Cells(df[i])], LAMBDA r : r[field] = v)

\* the same function applied to the table it returned
SortedAgain ==
    IF call.op = "sort_on"
    THEN sort_on(result.value, call.field, call.ascending, call.api)
    ELSE temporal(result.value, call.ascending, call.field, call.api)

\* C5 as stated: sort_on (and temporal) returns a permutation of the rows
\* ordered by field, ascending when ascending is true and descending when it
\* is false, ties in their original order; a second application returns the
\* same order.
C5_SortedPermutation ==
    (call.op \in {"sort_on", "temporal"} /\ Returned)
    => /\ IsOk(result)
       /\ IsPermutation(result.value, call.df)
       /\ OrderedBy(result.value, call.field, call.ascending)
       /\ TiesKeepOrder(result.value, call.df, call.field)
       /\ SortedAgain = result

\* ------------------------------------------------------------------------
\* Claims about nearest_date and stats

\* C6: for a non-empty array of ordinals and a date of the calendar,
\* nearest_date returns an index i minimising |array[i] - ordinal(date)|, and
\* the lowest such index when several entries are equally close; [1, 5, 10]
\* and a target of ordinal 6 give index 1.
C6_NearestLowestIndex ==
    (/\ call.op = "nearest_date"
     /\ Returned
     /\ Len(call.array) > 0
     /\ ValidYmd(call.date[1], call.date[2], call.date[3]))
    => /\ IsOk(result)
       /\ result.value \in 0..(Len(call.array) - 1)
       /\ LET target == DaysBeforeYear(call.date[1])
                           + DaysBeforeMonth(call.date[1], call.date[2]) + call.date[3]
               dist(i) == Abs(call.array[i + 1] - target)
           IN /\ \A j \in 0..(Len(call.array) - 1) : dist(result.value) <= dist(j)
              /\ \A j \in 0..(result.value - 1) : dist(j) > dist(result.value)
       /\ (call.array = <<1, 5, 10>> /\ call.date = <<1, 1, 6>>) => result.value = 1

\* 5 and 7 are equally close to ordinal 6; the lower index is returned
C6_Witness ==
    /\ call.op = "nearest_date"
    /\ Returned
    /\ call.array = <<10, 7, 5>>
    /\ call.date = <<1, 1, 6>>
    /\ result = Ok(1)

\* C7: stats of an empty array does not raise and returns a record with
\* exactly the keys min, max, mean, std, all four None; for a non-empty array
\* none of the four values is None.
C7_EmptyStatsAllNone ==
    (call.op = "stats" /\ Returned)
    => /\ IsOk(result)
       /\ DOMAIN result.value = {"min", "max", "mean", "std"}
       /\ Len(call.arr) = 0 => \A k \in DOMAIN result.value : result.value[k] = None
       /\ Len(call.arr) > 0 => \A k \in DOMAIN result.value : result.value[k] # None

C7_Witness ==
    /\ call.op = "stats"
    /\ Returned
    /\ call.arr = <<>>
    /\ result = Ok(NoneRecord)

\* ------------------------------------------------------------------------
\* Claims about get_seasonal_info

\* the years of the table's dates
YearsPresent(df) == {YearOf(df[i].dates) : i \in 1..Len(df)}

\* the season window of year y, from (y, start_mon, start_day) to
\* (y, end_mon, end_day), as ordinals
WindowStart(y, params) ==
    DaysBeforeYear(y) + DaysBeforeMonth(y, params.start_mon) + params.start_day

WindowEnd(y, params) ==
    DaysBeforeYear(y) + DaysBeforeMonth(y, params.end_mon) + params.end_day

\* the window is a span of calendar dates in every year present, and no
\* count of periods is given besides the frequency
WindowOk(df, params) ==
    /\ "periods" \notin DOMAIN params
    /\ \A y \in YearsPresent(df) :
          /\ ValidYmd(y, params.start_mon, params.start_day)
          /\ ValidYmd(y, params.end_mon, params.end_day)
          /\ WindowStart(y, params) <= WindowEnd(y, params)

\* the positions of the rows dated inside the window of year y whose qa
\* value is allowed
AllowedInWindow(df, y, params) ==
    {i \in 1..Len(df) :
        /\ WindowStart(y, params) <= df[i].dates
        /\ df[i].dates <= WindowEnd(y, params)
        /\ df[i][Arg(params, "mask_field", "qa")] \notin Arg(params, "vals", mask_values)}

\* the target-field values of those rows, in table order
WindowValues(df, y, params) ==
    LET keep == AllowedInWindow(df, y, params)
    IN [j \in 1..Cardinality(keep) |-> df[NthOf(keep, j)][params.field]]

\* C8 as stated: get_seasonal_info returns one record for every year present;
\* a year whose rows inside the season window all have a disallowed qa value
\* (or that has no row inside it) gets the all-None record, and the records
\* of the other years are not the all-None record.
C8_MaskedSeasonAllNone ==
    (/\ call.op = "get_seasonal_info"
     /\ Returned
     /\ WindowOk(call.df, call.params))
    => /\ IsOk(result)
       /\ DOMAIN result.value.at = YearsPresent(call.df)
       /\ \A y \in YearsPresent(call.df) :
            IF AllowedInWindow(call.df, y, call.params) = {}
            THEN result.value.at[y] = NoneRecord
            ELSE \A k \in DOMAIN result.value.at[y] : result.value.at[y][k] # None

\* The same statement for the default, daily frequency only.
DailySeasonAllNone ==
    (Arg(call.params, "freq", "D") = "D") => C8_MaskedSeasonAllNone

\* C10 as stated: for every year present and every frequency, the year's
\* statistics are those of the target-field values of exactly the rows dated
\* from (year, start_mon, start_day) to (year, end_mon, end_day) whose qa
\* value is not disallowed.  Stated here of the calls that return.
C10_SliceIsSeasonWindow ==
    (/\ call.op = "get_seasonal_info"
     /\ Returned
     /\ IsOk(result))
    => \A y \in YearsPresent(call.df) :
          result.value.at[y] = stats(WindowValues(call.df, y, call.params))

\* The same statement for the default, daily frequency only.
DailySliceIsSeasonWindow ==
    (Arg(call.params, "freq", "D") = "D") => C10_SliceIsSeasonWindow

====
